---- MODULE Spec2Model ----
(***************************************************************************)
(* Session view-model of the Tic Tac Toe client (component TicTacToe).     *)
(* The repository holds two builds of the component: src/app/page.tsx and  *)
(* src/unnamed/part_000.  The variable build records which one runs.       *)
(* The agent behind /api/agent is the environment: every fetch either      *)
(* rejects or answers with a status and a body drawn from Outcomes.        *)
(* lastSettled is a history variable: the request whose fetch settled last *)
(* and how it settled, forgotten when the next request is issued.          *)
(***************************************************************************)
EXTENDS Integers, Sequences, FiniteSets, TLC

VARIABLES build, mounted, gameState, gameStatus, winner, showWinnerModal,
          loading, message, error, inflight, lastSettled

vars == <<build, mounted, gameState, gameStatus, winner, showWinnerModal,
          loading, message, error, inflight, lastSettled>>

\* ---------------------------------------------------------------- bounds
\* Cells of the board the agent sends (the real board has 9).
MaxPos == 2
\* Requests the transport may hold at once before issuing is cut off.
MaxInFlight == 2

\* ---------------------------------------------------------------- values
Builds == {"page.tsx", "part_000"}

\* JavaScript null and undefined for string-valued state.
NullS == "<null>"
UndefS == "<undefined>"

\* JavaScript null and undefined for the GameState-valued state.
NullGS == [kind |-> "null"]
UndefGS == [kind |-> "undefined"]

Positions == 1..MaxPos

\* `${position}`: the decimal text of a position.
PosStr(p) ==
  CASE p = 1 -> "1" [] p = 2 -> "2" [] p = 3 -> "3" [] p = 4 -> "4"
    [] p = 5 -> "5" [] p = 6 -> "6" [] p = 7 -> "7" [] p = 8 -> "8"
    [] OTHER -> "9"

Count(b, mark) == Cardinality({i \in Positions : b[i] = mark})

\* The boards of a game in which the user plays X and moves first and the
\* agent answers with O.
Boards ==
  {b \in [Positions -> {"X", "O", "empty"}] :
     Count(b, "O") <= Count(b, "X") /\ Count(b, "X") <= Count(b, "O") + 1}

\* A cell is "X", "O", or the number of its own position when empty.

BoardSeq(b) == [i \in Positions |-> IF b[i] = "empty" THEN PosStr(i) ELSE b[i]]

\* interface GameState: the board and the positions still open on it.
GameStateOf(b) ==
  [kind |-> "obj",
   board |-> BoardSeq(b),
   available_moves |-> {i \in Positions : b[i] = "empty"}]

GameStates == {GameStateOf(b) : b \in Boards}

\* game_status with the winner the agent reports for it.
StatusWinner ==
  {<<"in_progress", "none">>, <<"won", "X">>, <<"won", "O">>, <<"draw", "none">>}

Messages == {"Your move"}

\* interface GameResponse: the game payload inside the envelope.
Payloads ==
  {[game_state |-> g, game_status |-> sw[1], winner |-> sw[2], message |-> m] :
     g \in GameStates, sw \in StatusWinner, m \in Messages}

\* ------------------------------------------------------------------ JSON
\* A JSON text is its sequence of tokens.
RECURSIVE AscendingFrom(_, _)
AscendingFrom(S, p) ==
  IF p > 9 THEN <<>>
  ELSE (IF p \in S THEN <<PosStr(p)>> ELSE <<>>) \o AscendingFrom(S, p + 1)

StrPos(s) == CHOOSE p \in 1..9 : PosStr(p) = s

\* JSON.stringify of a game payload.
Stringify(P) ==
  <<"{", "game_state", "{", "board", "[">> \o P.game_state.board
    \o <<"]", "available_moves", "[">>
    \o AscendingFrom(P.game_state.available_moves, 1)
    \o <<"]", "}", "game_status", P.game_status, "winner", P.winner,
         "message", P.message, "}">>

\* Index of the first tok at or after position from, 0 when there is none.
RECURSIVE IndexFrom(_, _, _)
IndexFrom(text, tok, from) ==
  IF from > Len(text) THEN 0
  ELSE IF text[from] = tok THEN from
  ELSE IndexFrom(text, tok, from + 1)

\* JSON.parse of the text of a string response: the payload it encodes, or
\* a SyntaxError when the text is not well formed.
Parse(text) ==
  LET n  == Len(text)
      i1 == IndexFrom(text, "]", 6)
      i2 == IF i1 = 0 THEN 0 ELSE IndexFrom(text, "]", i1 + 3)
      wellFormed ==
        /\ i1 # 0 /\ i2 # 0 /\ n = i2 + 8
        /\ SubSeq(text, 1, 5) = <<"{", "game_state", "{", "board", "[">>
        /\ SubSeq(text, i1 + 1, i1 + 2) = <<"available_moves", "[">>
        /\ text[i2 + 1] = "}" /\ text[i2 + 2] = "game_status"
        /\ text[i2 + 4] = "winner" /\ text[i2 + 6] = "message"
        /\ text[n] = "}"
  IN IF wellFormed
     THEN [ok |-> TRUE,
           value |->
             [game_state |->
                [kind |-> "obj",
                 board |-> SubSeq(text, 6, i1 - 1),
                 available_moves |->
                   {StrPos(text[j]) : j \in (i1 + 3)..(i2 - 1)}],
              game_status |-> text[i2 + 3],
              winner |-> text[i2 + 5],
              message |-> text[i2 + 7]]]
     ELSE [ok |-> FALSE]

\* A text cut short: the start of every payload's text, not well formed.
TruncatedText == <<"{", "game_state", "{", "board", "[">>

\* ------------------------------------------------------- the agent's answers
\* The response field of an envelope: missing, a structured payload, or a
\* string holding JSON text.
Responses ==
  {[t |-> "absent"]}
    \cup {[t |-> "object", v |-> P] : P \in Payloads}
    \cup {[t |-> "string", s |-> Stringify(P)] : P \in Payloads}
    \cup {[t |-> "string", s |-> TruncatedText]}

\* Variant A: { success: bool, response: string | object, error?: string }.
EnvelopesA ==
  {[success |-> "true", status |-> "absent", response |-> r, error |-> "absent"] :
     r \in Responses}
    \cup {[success |-> "false", status |-> "absent", response |-> [t |-> "absent"],
           error |-> e] : e \in {"absent", "Agent unavailable"}}

\* Variant B: { status: "success" | other, response: object }.
EnvelopesB ==
  {[success |-> "absent", status |-> "success", response |-> r, error |-> "absent"] :
     r \in Responses}
    \cup {[success |-> "absent", status |-> "error", response |-> [t |-> "absent"],
           error |-> "absent"]}

Envelopes == EnvelopesA \cup EnvelopesB

\* The body of an answer: JSON text of an envelope, or text that is no JSON.
Bodies ==
  {[json |-> "malformed"]} \cup {[json |-> "ok", data |-> e] : e \in Envelopes}

\* What fetch rejects with: an Error, or a value that is no Error.
Rejections ==
  {[isError |-> TRUE, message |-> "Failed to fetch"],
   [isError |-> FALSE, message |-> ""]}

\* Every way a fetch can end.
Outcomes ==
  {[t |-> "rejected", err |-> e] : e \in Rejections}
    \cup {[t |-> "responded", ok |-> k, body |-> b] : k \in BOOLEAN, b \in Bodies}

\* ----------------------------------------------------------- the view state
\* The useState cells of TicTacToe as one record.
view ==
  [gameState |-> gameState, gameStatus |-> gameStatus, winner |-> winner,
   showWinnerModal |-> showWinnerModal, loading |-> loading,
   message |-> message, error |-> error]

\* JavaScript truthiness of a GameState-valued and of a string-valued cell.
TruthyGS(g) == g.kind = "obj"
TruthyS(s) == s \notin {NullS, UndefS, ""}

\* The requests sent to /api/agent.
NewGameRequest == [message |-> "new game", position |-> 0]
MoveRequest(p) == [message |-> "move", position |-> p]

\* catch (err): the message of an Error, or the fixed text.
Catch(v, err) ==
  [v EXCEPT !.error = IF err.isError THEN err.message ELSE "An error occurred"]

\* The finally block left out.
FinallyMissing(v) == v

\* finally { setLoading(false) }
Finally(v) == [v EXCEPT !.loading = FALSE]

\* The else branch of the envelope test.
DefaultError(b, req) ==
  IF req.message = "move" THEN "Failed to process move"
  ELSE "Failed to start new game"

EnvelopeError(b, req, data) ==
  IF b = "page.tsx" /\ data.error # "absent" THEN data.error
  ELSE DefaultError(b, req)

\* The test on the envelope: data.success && data.response in page.tsx,
\* data.status === 'success' && data.response in part_000.
EnvelopeAccepted(b, data) ==
  IF b = "page.tsx"
  THEN data.success = "true" /\ data.response.t # "absent"
  ELSE data.status = "success" /\ data.response.t # "absent"

\* if (!response.ok) throw: only page.tsx looks at the status.
StatusRejected(b, o) == b = "page.tsx" /\ ~o.ok

\* gameData: page.tsx parses a string response, part_000 casts data.response
\* whatever it is.  thrown is the SyntaxError of JSON.parse.
GameData(b, response) ==
  IF response.t = "object"
  THEN [thrown |-> FALSE, structured |-> TRUE, v |-> response.v]
  ELSE IF b = "page.tsx"
  THEN (IF Parse(response.s).ok
        THEN [thrown |-> FALSE, structured |-> TRUE, v |-> Parse(response.s).value]
        ELSE [thrown |-> TRUE])
  ELSE [thrown |-> FALSE, structured |-> FALSE]

\* The success branch of makeMove without its test for won or draw: winner
\* and the modal are set on every move response.
ApplyGameDataAlwaysWinner(b, v, req, gd) ==
  LET gs == IF gd.structured THEN gd.v.game_state ELSE UndefGS
      st == IF gd.structured THEN gd.v.game_status ELSE UndefS
      ms == IF gd.structured THEN gd.v.message ELSE UndefS
      wn == IF gd.structured THEN gd.v.winner ELSE UndefS
      v1 == [v EXCEPT !.gameState = gs, !.gameStatus = st, !.message = ms]
  IN IF req.message = "move"
     THEN [v1 EXCEPT !.winner = wn,
                     !.showWinnerModal = IF b = "page.tsx" THEN TRUE ELSE @]
     ELSE v1

\* The setters of the success branch.  Reading a field of a string gives
\* undefined.  Only makeMove sets winner, and only on won or draw.
ApplyGameData(b, v, req, gd) ==
  LET gs == IF gd.structured THEN gd.v.game_state ELSE UndefGS
      st == IF gd.structured THEN gd.v.game_status ELSE UndefS
      ms == IF gd.structured THEN gd.v.message ELSE UndefS
      wn == IF gd.structured THEN gd.v.winner ELSE UndefS
      v1 == [v EXCEPT !.gameState = gs, !.gameStatus = st, !.message = ms]
  IN IF req.message = "move" /\ st \in {"won", "draw"}
     THEN [v1 EXCEPT !.winner = wn,
                     !.showWinnerModal = IF b = "page.tsx" THEN TRUE ELSE @]
     ELSE v1

\* The try block after the await of fetch.
TryBody(b, v, req, o) ==
  IF o.t = "rejected" THEN Catch(v, o.err)
  ELSE IF StatusRejected(b, o)
  THEN Catch(v, [isError |-> TRUE, message |-> "API error: 500"])
  ELSE IF o.body.json = "malformed"
  THEN Catch(v, [isError |-> TRUE, message |-> "Unexpected end of JSON input"])
  ELSE LET data == o.body.data IN
       IF EnvelopeAccepted(b, data)
       THEN LET gd == GameData(b, data.response) IN
            IF gd.thrown
            THEN Catch(v, [isError |-> TRUE, message |-> "Unexpected end of JSON input"])
            ELSE ApplyGameData(b, v, req, gd)
       ELSE [v EXCEPT !.error = EnvelopeError(b, req, data)]

\* makeMove and startNewGame from the point where fetch settles.
OnSettled(b, v, req, o) == Finally(TryBody(b, v, req, o))

\* startNewGame up to the await: the view and the requests in flight after it.
startNewGame(b, v, q) ==
  <<[v EXCEPT !.loading = TRUE, !.error = NullS, !.winner = NullS,
              !.showWinnerModal = FALSE, !.gameStatus = "in_progress"],
    Append(q, NewGameRequest)>>

\* The guard of makeMove left out.
MoveSuppressedNever(v) == FALSE

\* if (loading) return
MoveSuppressed(v) == v.loading

\* makeMove up to the await.
makeMove(b, v, q, p) ==
  IF MoveSuppressed(v) THEN <<v, q>>
  ELSE <<[v EXCEPT !.loading = TRUE, !.error = NullS], Append(q, MoveRequest(p))>>

\* handlePlayAgain: page.tsx hides the modal, part_000 clears winner, then both
\* start a new game.
handlePlayAgain(b, v, q) ==
  IF b = "page.tsx"
  THEN startNewGame(b, [v EXCEPT !.showWinnerModal = FALSE], q)
  ELSE startNewGame(b, [v EXCEPT !.winner = NullS], q)

\* ------------------------------------------------------------- what is shown
\* {!loading && gameState && <GameBoard .../>}
BoardRendered(v) == ~v.loading /\ TruthyGS(v.gameState)

\* isAvailable without the look at available_moves.
isAvailableAnyCell(v, p) == ~v.loading

\* isAvailable of the Cell at position p; the button is disabled without it.
isAvailable(v, p) == p \in v.gameState.available_moves /\ ~v.loading

\* A click on the cell at p reaches makeMove: the board is rendered, it has
\* a cell p, the button is enabled and the onClick guard lets it pass.
CellClickable(v, p) ==
  /\ BoardRendered(v)
  /\ p \in 1..Len(v.gameState.board)
  /\ isAvailable(v, p)
  /\ ~v.loading

\* disabled={loading} of the New Game button.
NewGameDisabled(v) == v.loading

\* {winner && <WinnerModal .../>}: page.tsx also passes isOpen.
DialogShown(b, v) ==
  IF b = "page.tsx" THEN TruthyS(v.winner) /\ v.showWinnerModal
  ELSE TruthyS(v.winner)

\* The result dialog is modal: while it is shown the page under it takes no
\* clicks, and the only way out is Play Again (in page.tsx also dismissing it,
\* which calls the same handler).
PageBlocked(b, v) == DialogShown(b, v)

\* ------------------------------------------------------------------ actions
NoSettle == [req |-> [message |-> "none", position |-> 0], o |-> [t |-> "none"]]

Install(r) ==
  /\ gameState' = r[1].gameState
  /\ gameStatus' = r[1].gameStatus
  /\ winner' = r[1].winner
  /\ showWinnerModal' = r[1].showWinnerModal
  /\ loading' = r[1].loading
  /\ message' = r[1].message
  /\ error' = r[1].error
  /\ inflight' = r[2]

Init ==
  /\ build \in Builds
  /\ mounted = FALSE
  /\ gameState = NullGS
  /\ gameStatus = "in_progress"
  /\ winner = NullS
  /\ showWinnerModal = FALSE
  /\ loading = FALSE
  /\ message = "Starting new game..."
  /\ error = NullS
  /\ inflight = <<>>
  /\ lastSettled = NoSettle

\* useEffect(() => { startNewGame() }, [])
Mount ==
  /\ ~mounted
  /\ mounted' = TRUE
  /\ Install(startNewGame(build, view, inflight))
  /\ lastSettled' = NoSettle
  /\ UNCHANGED build

\* A click on an enabled cell: handleCellClick(position).
CellClick(p) ==
  /\ mounted
  /\ Len(inflight) < MaxInFlight
  /\ ~PageBlocked(build, view)
  /\ CellClickable(view, p)
  /\ Install(makeMove(build, view, inflight, p))
  /\ lastSettled' = NoSettle
  /\ UNCHANGED <<build, mounted>>

\* A click on the New Game button.
NewGameClick ==
  /\ mounted
  /\ Len(inflight) < MaxInFlight
  /\ ~PageBlocked(build, view)
  /\ ~NewGameDisabled(view)
  /\ Install(startNewGame(build, view, inflight))
  /\ lastSettled' = NoSettle
  /\ UNCHANGED <<build, mounted>>

\* Play Again in the result dialog.
PlayAgain ==
  /\ mounted
  /\ Len(inflight) < MaxInFlight
  /\ DialogShown(build, view)
  /\ Install(handlePlayAgain(build, view, inflight))
  /\ lastSettled' = NoSettle
  /\ UNCHANGED <<build, mounted>>

Without(q, i) == SubSeq(q, 1, i - 1) \o SubSeq(q, i + 1, Len(q))

\* The fetch of the i-th request in flight settles with outcome o, and the
\* rest of its handler runs.
Settle(i, o) ==
  /\ i \in 1..Len(inflight)
  /\ lastSettled' = [req |-> inflight[i], o |-> o]
  /\ Install(<<OnSettled(build, view, inflight[i], o), Without(inflight, i)>>)
  /\ UNCHANGED <<build, mounted>>

Next ==
  \/ Mount
  \/ \E p \in Positions : CellClick(p)
  \/ NewGameClick
  \/ PlayAgain
  \/ \E i \in 1..MaxInFlight, o \in Outcomes : Settle(i, o)

Spec == Init /\ [][Next]_vars

\* Every request that was issued is answered or fails in the end.
FairSpec == Spec /\ WF_vars(\E i \in 1..MaxInFlight, o \in Outcomes : Settle(i, o))

\* ------------------------------------------------------- vocabulary of claims
\* A step that issues a request, and one in which a fetch settles.
Issues == Len(inflight') = Len(inflight) + 1
Settles == Len(inflight') = Len(inflight) - 1

\* The envelope signals success in either of the two variants.
SignalsSuccess(data) ==
  (data.success = "true" \/ data.status = "success") /\ data.response.t # "absent"

\* The game payload a response field carries, whichever way it is encoded.
Decoded(response) ==
  IF response.t = "object" THEN [ok |-> TRUE, value |-> response.v]
  ELSE Parse(response.s)

HasEnvelope(o) == o.t = "responded" /\ o.body.json = "ok"

\* A successful response: OK status, an envelope that signals success, and a
\* response field that holds a game payload.
IsSuccess(o) ==
  /\ HasEnvelope(o) /\ o.ok
  /\ SignalsSuccess(o.body.data)
  /\ Decoded(o.body.data.response).ok

PayloadOf(o) == Decoded(o.body.data.response).value

\* The string response of o replaced by the payload it encodes.
Structured(o) ==
  [o EXCEPT !.body.data.response = [t |-> "object", v |-> PayloadOf(o)]]

Terminal(st) == st \in {"won", "draw"}

\* ---------------------------------------------------------------------- C1
\* C1: at most one request is in flight in every reachable state, and in
\* every state with loading set makeMove(p) issues nothing and changes
\* nothing, for every position p.
C1_AtMostOneInFlight ==
  /\ Len(inflight) <= 1
  /\ loading =>
       \A p \in Positions : makeMove(build, view, inflight, p) = <<view, inflight>>

\* A move request is in flight, loading is set, and nothing else is in flight.
C1_Witness ==
  loading /\ Len(inflight) = 1 /\ inflight[1].message = "move"

\* ---------------------------------------------------------------------- C2
\* C2: every step in which a request settles leaves loading false, whatever
\* the outcome; and when every request settles in the end, loading set leads
\* to loading cleared.
C2_LoadingReleased ==
  /\ [][Settles => ~loading']_vars
  /\ (loading ~> ~loading)

\* A request has failed (fetch rejected) and loading is false again.
C2_Witness ==
  lastSettled.o.t = "rejected" /\ ~loading /\ inflight = <<>>

\* --------------------------------------------------------------------- C10
\* C10: every step that issues "move p" starts in a state whose gameState is
\* an object with p among its available_moves.
C10_MovesAreAvailable ==
  [][\A p \in Positions :
       inflight' = Append(inflight, MoveRequest(p)) =>
         TruthyGS(gameState) /\ p \in gameState.available_moves]_vars

\* A move request is in flight for a position that is open on the board.
C10_Witness ==
  \E i \in 1..Len(inflight) :
    /\ inflight[i].message = "move"
    /\ TruthyGS(gameState)
    /\ inflight[i].position \in gameState.available_moves

\* A failure outcome: fetch rejected, or an answer with OK status whose body
\* is no JSON, whose envelope does not signal success, or whose string
\* response is no JSON.
FailureOutcome(o) ==
  \/ o.t = "rejected"
  \/ /\ o.t = "responded" /\ o.ok
     /\ \/ o.body.json = "malformed"
        \/ ~SignalsSuccess(o.body.data)
        \/ ~Decoded(o.body.data.response).ok

C4_EncodingIrrelevant ==
  [][Settles =>
       LET o == lastSettled'.o IN
       (IsSuccess(o) /\ o.body.data.response.t = "string") =>
         LET twin == OnSettled(build, view, lastSettled'.req, Structured(o)) IN
         /\ gameState' = twin.gameState
         /\ gameStatus' = twin.gameStatus
         /\ message' = twin.message]_vars

\* ---------------------------------------------------------------------- C5
\* C5: when a request settles with OK status and an envelope that signals
\* success in either variant (success flag true, or status "success") and
\* carries a payload object, gameState, gameStatus and message are taken from
\* the payload and error stays null.
C5_BothVariantsAccepted ==
  [][Settles =>
       LET o == lastSettled'.o IN
       (IsSuccess(o) /\ o.body.data.response.t = "object") =>
         /\ gameState' = PayloadOf(o).game_state
         /\ gameStatus' = PayloadOf(o).game_status
         /\ message' = PayloadOf(o).message
         /\ error' = NullS]_vars

\* ---------------------------------------------------------------------- C6
\* C6: when a request settles with a non-OK status, error is set and
\* gameState, gameStatus and message stay what they were, whatever the body.
C6_NonOkIsFailure ==
  [][Settles =>
       LET o == lastSettled'.o IN
       (o.t = "responded" /\ ~o.ok) =>
         /\ TruthyS(error')
         /\ gameState' = gameState
         /\ gameStatus' = gameStatus
         /\ message' = message]_vars

\* ---------------------------------------------------------------------- C7
\* C7: once a request has settled with a failure outcome, error is a
\* non-empty string.
C7_FailuresSetError ==
  FailureOutcome(lastSettled.o) => TruthyS(error)

\* ---------------------------------------------------------------------- C8
\* C8: while gameStatus is won or draw (a terminal response has been applied
\* and no new game has been started since), no step issues a move request.
C8_TerminalBlocksMoves ==
  [][Terminal(gameStatus) =>
       \A p \in Positions : inflight' # Append(inflight, MoveRequest(p))]_vars

\* ---------------------------------------------------------------------- C9
\* C9: when a move request settles with a successful response (one this
\* build's envelope test accepts), then if the payload's game_status is won
\* or draw winner becomes the payload's winner and the result dialog is
\* shown, and otherwise winner stays what it was.
C9_WinnerOnTerminalMove ==
  [][Settles =>
       LET o == lastSettled'.o IN
       (/\ lastSettled'.req.message = "move"
        /\ IsSuccess(o) /\ EnvelopeAccepted(build, o.body.data)) =>
         IF Terminal(PayloadOf(o).game_status)
         THEN winner' = PayloadOf(o).winner /\ DialogShown(build, view')
         ELSE winner' = winner]_vars

\* --------------------------------------------------------------------- C11
\* C11: in every reachable state in which the result dialog is shown (winner
\* is truthy, and in page.tsx showWinnerModal is true) gameStatus is won or
\* draw.
C11_DialogOnlyWhenTerminal ==
  DialogShown(build, view) => Terminal(gameStatus)

\* The dialog is shown after a move request settled with a won or draw payload.
C11_Witness ==
  /\ DialogShown(build, view)
  /\ lastSettled.req.message = "move"
  /\ Terminal(gameStatus)
  /\ ~loading

====
